---------------------------- MODULE Spec2Model ----------------------------
(***************************************************************************)
(* A model of cloud-drive-tools (src/src/cloud_drive_tools/               *)
(* cloud_drive_tools.py): configuration loading, the upload command with  *)
(* its PID lock file, and the mount / unmount lifecycle with the          *)
(* unmount-lock sentinel.                                                  *)
(*                                                                         *)
(* The specifications share the variables:                                 *)
(*   SpecConfig    - a command invoked on every configuration mapping      *)
(*   SpecUpload    - concurrently started `upload` commands                *)
(*   SpecMount     - `unmount` (unmount-all) racing `cloud-drive-mount`    *)
(*   SpecSyncDeletes - delete reconciliation run twice in a row,           *)
(*                   for every set of whiteout markers                     *)
(*   SpecCopyPrune - one `upload` from its copy step on, for every content *)
(*                   of the local cache and every retention window         *)
(*   SpecDataDir   - `mount-data-dir` beside `cloud-drive-mount`;          *)
(*                   FairSpecDataDir adds that the command keeps running   *)
(***************************************************************************)
EXTENDS Integers, Sequences, FiniteSets

VARIABLES
    \* ---- configuration loading
    config_keys,          \* the keys of the parsed YAML mapping (config.keys())
    load_result,          \* what _get_config did: pending / raised / returned
    environ,              \* is os.environ['ENCFS6_CONFIG'] set by this process
    command_body,         \* has the body of the invoked command been entered
    \* ---- upload
    pid_file,             \* upload.pid: [exists, text]
    proc_table,           \* pids with an entry under /proc
    pc,                   \* position of every upload process
    running_pid,          \* upload's local `running_pid`
    trace,                \* per upload process: the steps it has performed
    matched_files,        \* _sync_deletes: markers the rglob has still to yield
    failed_sync_deletes,  \* _sync_deletes: the local flag of that name
    search_dir,           \* does local_decrypted/.unionfs-fuse exist
    markers,              \* whiteout markers present under search_dir
    remote,               \* marker ids whose path exists on the cloud remote
    local_entries,        \* entries under local_decrypted: [file, ctime]
    now_timestamp,        \* datetime.now().timestamp() in _local_cleanup
    seconds_to_keep_local,\* days_to_keep_local * 24 * 60 * 60
    filtered,             \* local files the filters of the copy leave out
    uploaded,             \* local files a copy has transferred to the remote
    \* ---- mount lifecycle
    mounts,               \* mountpoints in the kernel mount table
    mount_base_has_space, \* does the configured mount_base contain a space
    remote_encrypted_dir, \* does the directory remote_encrypted exist
    unmount_lock_file,    \* does the unmount-lock sentinel exist
    u_pc,                 \* position of the unmount-all process
    u_trace,              \* the steps unmount-all has performed
    m_pc,                 \* position of the cloud-drive-mount process
    rclone_mount,         \* the foreground `rclone mount` child of the loop
    \* ---- mount-data-dir
    path_on_cloud_drive,  \* the configured cloud sub-path
    cloud_has_path,       \* does that path exist on the cloud remote
    d_pc,                 \* position of the mount-data-dir process
    attempts,             \* _wait_for_remote_mount: the local of that name
    waited,               \* seconds _wait_for_remote_mount has slept
    d_trace               \* the mount tools mount-data-dir has run

configVars == <<config_keys, load_result, environ, command_body>>
cleanupVars == <<now_timestamp, seconds_to_keep_local>>
copyVars == <<filtered, uploaded>>
uploadVars == <<pid_file, proc_table, pc, running_pid, trace, matched_files,
                failed_sync_deletes, search_dir, markers, remote,
                local_entries, cleanupVars, copyVars>>
mountVars  == <<mounts, mount_base_has_space, remote_encrypted_dir,
                unmount_lock_file, u_pc, u_trace, m_pc, rclone_mount>>
dataVars   == <<path_on_cloud_drive, cloud_has_path, d_pc, attempts, waited,
                d_trace>>
vars == <<configVars, uploadVars, mountVars, dataVars>>

---------------------------------------------------------------------------
(* Bounds of the model                                                     *)

\* string keys outside the allowed set that a document may carry
MaxExtraKeys == 2
\* non-string (YAML integer) keys that a document may carry
MaxNonStrKeys == 1
\* `upload` commands started concurrently
NumUploads == 2
\* whiteout markers under .unionfs-fuse when the uploads start
MaxMarkers == 2
\* creation/change times of the entries of the local cache are 0..MaxCtime
MaxCtime == 2
\* retention windows are 0..MaxKeep seconds
MaxKeep == 2

---------------------------------------------------------------------------
(* Configuration loading: _get_config                                      *)

\* A YAML mapping key.  str: is it a Python str; name/n identify it.
StrKey(s) == [str |-> TRUE, name |-> s, n |-> 0]

required_keys ==
    { StrKey("cloud_drive_tools_path"), StrKey("data_dir"),
      StrKey("days_to_keep_local"), StrKey("encfs6_config"),
      StrKey("encfs_pass"), StrKey("mount_base"),
      StrKey("path_on_cloud_drive"), StrKey("rclone"),
      StrKey("rclone_config_path"), StrKey("rclone_remote"),
      StrKey("rclone_verbose") }

allowed_keys == required_keys

\* Keys a document may carry besides the required ones: unknown strings and
\* keys that YAML parses to a non-string (e.g. `1: x`).
ExtraStrKeys == { [str |-> TRUE, name |-> "unexpected", n |-> i] : i \in 1..MaxExtraKeys }
NonStrKeys   == { [str |-> FALSE, name |-> "", n |-> i] : i \in 1..MaxNonStrKeys }
KeyUniverse  == required_keys \cup ExtraStrKeys \cup NonStrKeys

RECURSIVE SetToSeq(_)
SetToSeq(S) ==
    IF S = {} THEN <<>>
    ELSE LET x == CHOOSE y \in S : TRUE
         IN  <<x>> \o SetToSeq(S \ {x})

\* ', '.join(keys): the items one after the other; a TypeError when an item
\* is not a str.  (The iteration order of a set is unspecified; one order is
\* taken, nothing below depends on which.)
Join(keys) ==
    IF \A k \in keys : k.str
    THEN [raised |-> "none", items |-> SetToSeq(keys)]
    ELSE [raised |-> "TypeError", items |-> <<>>]

Pending == [status |-> "pending", about |-> "none", items |-> <<>>]

Raise(joined, about) ==
    IF joined.raised = "none"
    THEN [status |-> "BadParameter", about |-> about, items |-> joined.items]
    ELSE [status |-> joined.raised, about |-> "none", items |-> <<>>]

\* _Config(...): `assert shutil.which(str(rclone)) is not None` comes before
\* the object is returned.
Config(rclone_on_path) ==
    [status |-> IF rclone_on_path THEN "Config" ELSE "AssertionError",
     about |-> "none", items |-> <<>>]

get_config_first_missing_only(keys, rclone_on_path) ==
    LET missing_required_keys == required_keys \ keys
        extra_keys            == keys \ allowed_keys
    IN  IF missing_required_keys # {}
        THEN Raise(Join({CHOOSE k \in missing_required_keys : TRUE}), "missing")
        ELSE IF extra_keys # {}
        THEN Raise(Join(extra_keys), "extra")
        ELSE Config(rclone_on_path)

get_config(keys, rclone_on_path) ==
    LET missing_required_keys == required_keys \ keys
        extra_keys            == keys \ allowed_keys
    IN  IF missing_required_keys # {}
        THEN Raise(Join(missing_required_keys), "missing")
        ELSE IF extra_keys # {}
        THEN Raise(Join(extra_keys), "extra")
        ELSE Config(rclone_on_path)

environ_set_on_entry(result) == TRUE

\* `os.environ['ENCFS6_CONFIG'] = str(encfs6_config)` is the last statement
\* of _Config.__init__, which only a document that passed both key checks
\* reaches.
environ_set(result) == result.status = "Config"

body_runs_whatever_loaded(result) == result.status # "pending"

\* _get_config is the callback of the --config option: click calls the body
\* of the command with the value it returned, and not at all when it raised.
body_runs(result) == result.status = "Config"

\* Does the message of a raised BadParameter name key k
Names(result, k) == \E i \in 1..Len(result.items) : result.items[i] = k

ConfigIdle == /\ config_keys = {}
              /\ load_result = Pending
              /\ environ = FALSE
              /\ command_body = FALSE

GetConfig ==
    /\ load_result.status = "pending"
    /\ \E rclone_on_path \in BOOLEAN :
         /\ load_result' = get_config(config_keys, rclone_on_path)
         /\ environ' = (environ \/ environ_set(load_result'))
    /\ UNCHANGED <<config_keys, command_body, uploadVars, mountVars, dataVars>>

\* The body of the command (upload, unmount, cloud-drive-mount, ...) is
\* entered.
CommandBody ==
    /\ ~command_body
    /\ body_runs(load_result)
    /\ command_body' = TRUE
    /\ UNCHANGED <<config_keys, load_result, environ, uploadVars, mountVars,
                   dataVars>>

---------------------------------------------------------------------------
(* upload: the PID lock file, _sync_deletes, the copy, _local_cleanup      *)

Procs    == 1..NumUploads           \* an upload process is named by its pid
OtherPid == NumUploads + 1          \* a process that is not one of them
MarkerIds == 1..MaxMarkers

\* A whiteout marker is a regular file (of a deleted file) or a directory
\* (of a deleted directory): here the odd ones are files.
marker_is_file(m) == m % 2 = 1

\* upload.pid.  text is the pid written in it; NoText is the empty string.
NoText  == 0
NoFile  == [exists |-> FALSE, text |-> NoText]
PidFile(t) == [exists |-> TRUE, text |-> t]

Terminal == {"done", "failed", "crashed"}

Ev(op, m, ok) == [op |-> op, marker |-> m, ok |-> ok]

\* p moves to label l; a process that ends leaves the process table.
Goto(p, l) ==
    /\ pc' = [pc EXCEPT ![p] = l]
    /\ proc_table' = IF l \in Terminal THEN proc_table \ {p} ELSE proc_table

Log(p, evs) == trace' = [trace EXCEPT ![p] = @ \o evs]

\* `if upload_pid_file.exists():`
after_exists(exists) == IF exists THEN "read_text" ELSE "write_lock"

after_read_text_any_lock_blocks(text) == "proc_exists"

\* `running_pid = upload_pid_file.read_text()`, `if running_pid:`
after_read_text(text) == IF text # NoText THEN "proc_exists" ELSE "write_lock"

\* `proc_file = Path('/proc') / running_pid`.  Path('/proc') / '' is /proc.
proc_file_exists(text, table) == text = NoText \/ text \in table

\* `if proc_file.exists(): ctx.fail(...)`
after_proc_exists(alive) == IF alive THEN "failed" ELSE "write_lock"

on_tool_exit_unchecked(ok, next) == next

\* subprocess.run(..., check=True): CalledProcessError on a non-zero exit,
\* which nothing in upload catches.
on_tool_exit(ok, next) == IF ok THEN next ELSE "crashed"

\* `config.local_encrypted.glob('*')`: local_encrypted is the encfs reverse
\* view of local_decrypted, with one child per entry of it.
children(entries) == entries

\* `if children:` -- glob returns a generator, and a generator object is
\* true whatever it yields.
children_truthy(yielded) == TRUE

upload_order_unlock_before_cleanup(step) ==
    CASE step = "write_lock"     -> "sync_deletes"
      [] step = "sync_deletes"   -> "encode_exclude"
      [] step = "encode_exclude" -> "copy"
      [] step = "copy"           -> "unlink_lock"
      [] step = "unlink_lock"    -> "cleanup"
      [] step = "cleanup"        -> "done"

\* The statements of upload after the lock check, in program order.
upload_order(step) ==
    CASE step = "write_lock"     -> "sync_deletes"
      [] step = "sync_deletes"   -> "encode_exclude"
      [] step = "encode_exclude" -> "copy"
      [] step = "copy"           -> "cleanup"
      [] step = "cleanup"        -> "unlink_lock"
      [] step = "unlink_lock"    -> "done"

local_cleanup_up_to_cutoff(entries, now, seconds_to_keep) ==
    LET oldest_acceptable_time == now - seconds_to_keep
    IN  { e \in entries : ~(e.file /\ e.ctime <= oldest_acceptable_time) }

\* _local_cleanup: `if path.is_file() and ctime < oldest_acceptable_time:
\* path.unlink()` for every path under local_decrypted.  The result is what
\* is left.
local_cleanup(entries, now, seconds_to_keep) ==
    LET oldest_acceptable_time == now - seconds_to_keep
    IN  { e \in entries : ~(e.file /\ e.ctime < oldest_acceptable_time) }

Start(p) ==
    /\ pc[p] = "not_started"
    /\ pc' = [pc EXCEPT ![p] = "lock_exists"]
    /\ proc_table' = proc_table \cup {p}
    /\ UNCHANGED <<pid_file, running_pid, trace, matched_files,
                   failed_sync_deletes, search_dir, markers, remote, local_entries, cleanupVars, copyVars,
                   configVars, mountVars, dataVars>>

LockExists(p) ==
    /\ pc[p] = "lock_exists"
    /\ Goto(p, after_exists(pid_file.exists))
    /\ UNCHANGED <<pid_file, running_pid, trace, matched_files,
                   failed_sync_deletes, search_dir, markers, remote, local_entries, cleanupVars, copyVars,
                   configVars, mountVars, dataVars>>

\* read_text of a file that another upload has unlinked since the exists()
\* call raises FileNotFoundError.
ReadText(p) ==
    /\ pc[p] = "read_text"
    /\ IF pid_file.exists
       THEN /\ running_pid' = [running_pid EXCEPT ![p] = pid_file.text]
            /\ Goto(p, after_read_text(pid_file.text))
       ELSE /\ Goto(p, "crashed")
            /\ UNCHANGED running_pid
    /\ UNCHANGED <<pid_file, trace, matched_files,
                   failed_sync_deletes, search_dir, markers, remote, local_entries, cleanupVars, copyVars,
                   configVars, mountVars, dataVars>>

ProcExists(p) ==
    /\ pc[p] = "proc_exists"
    /\ Goto(p, after_proc_exists(proc_file_exists(running_pid[p], proc_table)))
    /\ UNCHANGED <<pid_file, running_pid, trace, matched_files,
                   failed_sync_deletes, search_dir, markers, remote, local_entries, cleanupVars, copyVars,
                   configVars, mountVars, dataVars>>

\* `upload_pid_file.write_text(str(os.getpid()))`, taken as one step.
\* running_pid is not read again, and is forgotten here.
WriteLock(p) ==
    /\ pc[p] = "write_lock"
    /\ pid_file' = PidFile(p)
    /\ running_pid' = [running_pid EXCEPT ![p] = NoText]
    /\ Log(p, <<Ev("write_lock", 0, TRUE)>>)
    /\ Goto(p, upload_order("write_lock"))
    /\ UNCHANGED <<matched_files,
                   failed_sync_deletes, search_dir, markers, remote, local_entries, cleanupVars, copyVars,
                   configVars, mountVars, dataVars>>

\* _sync_deletes, up to the start of the loop over the markers.
SyncDeletesEnter(p) ==
    /\ pc[p] = "sync_deletes"
    /\ IF search_dir
       THEN /\ matched_files' = [matched_files EXCEPT ![p] = markers]
            /\ failed_sync_deletes' = [failed_sync_deletes EXCEPT ![p] = FALSE]
            /\ Log(p, <<Ev("sync_deletes", 0, TRUE)>>)
            /\ Goto(p, "sd_loop")
       ELSE /\ Log(p, <<Ev("sync_deletes", 0, TRUE), Ev("sync_deletes_return", 0, TRUE)>>)
            /\ Goto(p, upload_order("sync_deletes"))
            /\ UNCHANGED <<matched_files, failed_sync_deletes>>
    /\ UNCHANGED <<pid_file, running_pid, search_dir, markers, remote, local_entries, cleanupVars, copyVars,
                   configVars, mountVars, dataVars>>

\* Removing the marker: unlink for a file, shutil.rmtree otherwise.  A marker
\* that is gone is no file, and rmtree of a missing path raises.
RemoveMarker(p, m, before) ==
    IF m \in markers
    THEN /\ markers' = markers \ {m}
         /\ matched_files' = [matched_files EXCEPT ![p] = @ \ {m}]
         /\ Log(p, before \o <<Ev("remove_marker", m, TRUE)>>)
         /\ Goto(p, "sd_loop")
    ELSE /\ Log(p, before \o <<Ev("remove_marker", m, FALSE)>>)
         /\ Goto(p, "crashed")
         /\ UNCHANGED <<markers, matched_files>>

after_ls_always_delete(returncode_zero) == "remote_delete"

\* `rclone_status_code = rclone_output.returncode`, `if rclone_status_code:`
\* -- a non-zero status of `rclone ls` is taken as "not on the remote" and
\* leads straight to the removal of the marker.
after_ls(returncode_zero) ==
    IF returncode_zero THEN "remote_delete" ELSE "remove_marker"

delete_cmd_always_delete(is_file) == "delete"

\* `delete_cmd = 'delete'` if matched_file.is_file(), else 'purge'
delete_cmd(is_file) == IF is_file THEN "delete" ELSE "purge"

clears_search_dir_always(failed) == TRUE

clears_search_dir_never(failed) == FALSE

\* `if not failed_sync_deletes: shutil.rmtree(search_dir)`
clears_search_dir(failed) == ~failed

\* One iteration of the loop over matched_files, for marker m.  encoded is
\* what encfsctl did, ls_ok whether `rclone ls` exited 0 (which it does only
\* for a path that is on the remote), del_ok whether the remote delete /
\* purge exited 0.
SyncDeletesMarker(p) ==
    /\ pc[p] = "sd_loop"
    /\ \E m \in matched_files[p], encoded \in {"fails", "empty", "name"},
          ls_ok \in BOOLEAN, del_ok \in BOOLEAN :
         LET cmd == delete_cmd(m \in markers /\ marker_is_file(m))
             listed == <<Ev("encode", m, TRUE), Ev("ls", m, ls_ok)>>
         IN
         /\ ls_ok => m \in remote
         /\ CASE encoded = "fails" ->
                /\ Log(p, <<Ev("encode", m, FALSE)>>)
                /\ Goto(p, on_tool_exit(FALSE, "sd_loop"))
                /\ UNCHANGED <<markers, matched_files, failed_sync_deletes, remote>>
           [] encoded = "empty" ->
                /\ Log(p, <<Ev("encode_empty", m, TRUE)>>)
                /\ failed_sync_deletes' = [failed_sync_deletes EXCEPT ![p] = TRUE]
                /\ matched_files' = [matched_files EXCEPT ![p] = @ \ {m}]
                /\ Goto(p, "sd_loop")
                /\ UNCHANGED <<markers, remote>>
           [] encoded = "name" /\ after_ls(ls_ok) = "remove_marker" ->
                /\ RemoveMarker(p, m, listed)
                /\ UNCHANGED <<failed_sync_deletes, remote>>
           [] encoded = "name" /\ after_ls(ls_ok) = "remote_delete" /\ ~del_ok ->
                /\ Log(p, listed \o <<Ev(cmd, m, FALSE)>>)
                /\ Goto(p, on_tool_exit(FALSE, "sd_loop"))
                /\ UNCHANGED <<markers, matched_files, failed_sync_deletes, remote>>
           [] encoded = "name" /\ after_ls(ls_ok) = "remote_delete" /\ del_ok ->
                /\ remote' = remote \ {m}
                /\ RemoveMarker(p, m, listed \o <<Ev(cmd, m, TRUE)>>)
                /\ UNCHANGED failed_sync_deletes
    /\ UNCHANGED <<pid_file, running_pid, search_dir,
                   local_entries, cleanupVars, copyVars,
                   configVars, mountVars, dataVars>>

\* After the loop: shutil.rmtree(search_dir) unless an encoding came back
\* empty.
SyncDeletesFinish(p) ==
    /\ pc[p] = "sd_loop"
    /\ matched_files[p] = {}
    /\ IF ~clears_search_dir(failed_sync_deletes[p])
       THEN /\ Log(p, <<Ev("sync_deletes_return", 0, TRUE)>>)
            /\ Goto(p, upload_order("sync_deletes"))
            /\ UNCHANGED <<search_dir, markers>>
       ELSE IF search_dir
       THEN /\ search_dir' = FALSE
            /\ markers' = {}
            /\ Log(p, <<Ev("rmtree_search_dir", 0, TRUE),
                        Ev("sync_deletes_return", 0, TRUE)>>)
            /\ Goto(p, upload_order("sync_deletes"))
       ELSE /\ Log(p, <<Ev("rmtree_search_dir", 0, FALSE)>>)
            /\ Goto(p, "crashed")
            /\ UNCHANGED <<search_dir, markers>>
    /\ UNCHANGED <<pid_file, running_pid, matched_files, failed_sync_deletes,
                   remote, local_entries, cleanupVars, copyVars,
                   configVars, mountVars, dataVars>>

\* `exclude_name = _encode_with_encfs('.unionfs-fuse', ...)`
EncodeExclude(p) ==
    /\ pc[p] = "encode_exclude"
    /\ \E ok \in BOOLEAN :
         /\ Log(p, <<Ev("encode_exclude", 0, ok)>>)
         /\ Goto(p, on_tool_exit(ok, upload_order("encode_exclude")))
    /\ UNCHANGED <<pid_file, running_pid, matched_files, failed_sync_deletes,
                   search_dir, markers, remote, local_entries,
                   cleanupVars, copyVars,
                   configVars, mountVars, dataVars>>

\* `rclone copy --max-size 100G --exclude /<exclude_name>/* local_encrypted
\* remote:path` exiting 0: the files it has transferred are the files of the
\* directory that neither filter leaves out.
rclone_copy(entries, left_out) == { e \in entries : e.file /\ e \notin left_out }

\* `if children: subprocess.run(args=upload_args, check=True)`
Copy(p) ==
    /\ pc[p] = "copy"
    /\ IF children_truthy(children(local_entries))
       THEN \E ok \in BOOLEAN :
              /\ Log(p, <<Ev("copy", 0, ok)>>)
              /\ Goto(p, on_tool_exit(ok, upload_order("copy")))
              /\ uploaded' = IF ok
                             THEN uploaded \cup rclone_copy(local_entries, filtered)
                             ELSE uploaded
       ELSE /\ Log(p, <<Ev("nothing_to_upload", 0, TRUE)>>)
            /\ Goto(p, upload_order("copy"))
            /\ UNCHANGED uploaded
    /\ UNCHANGED <<pid_file, running_pid, matched_files, failed_sync_deletes,
                   search_dir, markers, remote, local_entries,
                   cleanupVars, filtered,
                   configVars, mountVars, dataVars>>

LocalCleanup(p) ==
    /\ pc[p] = "cleanup"
    /\ local_entries' = local_cleanup(local_entries, now_timestamp,
                                       seconds_to_keep_local)
    /\ Log(p, <<Ev("cleanup", 0, TRUE)>>)
    /\ Goto(p, upload_order("cleanup"))
    /\ UNCHANGED <<pid_file, running_pid, matched_files, failed_sync_deletes,
                   search_dir, markers, remote,
                   cleanupVars, copyVars,
                   configVars, mountVars, dataVars>>

\* `upload_pid_file.unlink()`: FileNotFoundError when the file is gone.
UnlinkLock(p) ==
    /\ pc[p] = "unlink_lock"
    /\ IF pid_file.exists
       THEN /\ pid_file' = NoFile
            /\ Log(p, <<Ev("unlink_lock", 0, TRUE)>>)
            /\ Goto(p, upload_order("unlink_lock"))
       ELSE /\ Log(p, <<Ev("unlink_lock", 0, FALSE)>>)
            /\ Goto(p, "crashed")
            /\ UNCHANGED pid_file
    /\ UNCHANGED <<running_pid, matched_files, failed_sync_deletes,
                   search_dir, markers, remote, local_entries,
                   cleanupVars, copyVars,
                   configVars, mountVars, dataVars>>

\* The process that is no upload ends.
OtherProcessExit ==
    /\ OtherPid \in proc_table
    /\ proc_table' = proc_table \ {OtherPid}
    /\ UNCHANGED <<pid_file, pc, running_pid, trace, matched_files,
                   failed_sync_deletes, search_dir, markers, remote, local_entries, cleanupVars, copyVars,
                   configVars, mountVars, dataVars>>

UploadStep(p) ==
    \/ Start(p)
    \/ LockExists(p)
    \/ ReadText(p)
    \/ ProcExists(p)
    \/ WriteLock(p)
    \/ SyncDeletesEnter(p)
    \/ SyncDeletesMarker(p)
    \/ SyncDeletesFinish(p)
    \/ EncodeExclude(p)
    \/ Copy(p)
    \/ LocalCleanup(p)
    \/ UnlinkLock(p)

\* An entry under local_decrypted: a regular file or a directory, and its
\* st_ctime.
AllEntries == [file : BOOLEAN, ctime : 0..MaxCtime]

UploadIdle ==
    /\ pid_file = NoFile
    /\ proc_table = {}
    /\ pc = [p \in Procs |-> "not_started"]
    /\ running_pid = [p \in Procs |-> NoText]
    /\ trace = [p \in Procs |-> <<>>]
    /\ matched_files = [p \in Procs |-> {}]
    /\ failed_sync_deletes = [p \in Procs |-> FALSE]
    /\ search_dir = FALSE
    /\ markers = {}
    /\ remote = {}
    /\ local_entries = {}
    /\ now_timestamp = 0
    /\ seconds_to_keep_local = 0
    /\ filtered = {}
    /\ uploaded = {}

\* The uploads have not started.  upload.pid may be left over from an
\* earlier run: absent, empty, or naming a process that is no upload, live
\* or not.  There is at most one whiteout marker, and its path is on the
\* remote.  The local cache holds a file and a directory of every age;
\* the cutoff of the pruning is in the middle of the ages.
UploadInit ==
    /\ pid_file \in {NoFile, PidFile(NoText), PidFile(OtherPid)}
    /\ proc_table \in {{}, {OtherPid}}
    /\ pc = [p \in Procs |-> "not_started"]
    /\ running_pid = [p \in Procs |-> NoText]
    /\ trace = [p \in Procs |-> <<>>]
    /\ matched_files = [p \in Procs |-> {}]
    /\ failed_sync_deletes = [p \in Procs |-> FALSE]
    /\ search_dir \in BOOLEAN
    /\ markers \in (IF search_dir THEN {{}} \cup {{m} : m \in MarkerIds} ELSE {{}})
    /\ remote = markers
    /\ local_entries = AllEntries
    /\ now_timestamp = MaxCtime
    /\ seconds_to_keep_local = 1
    /\ filtered = {}
    /\ uploaded = {}

---------------------------------------------------------------------------
(* The mount lifecycle: _unmount, _unmount_all, _mount_cloud_storage       *)

Mountpoints == {"data_dir", "remote_encrypted", "remote_decrypted", "local_encrypted"}

\* The mountpoints under mount_base carry its space, data_dir is configured
\* on its own.
PathHasSpace(name) == mount_base_has_space /\ name # "data_dir"

\* The second field of the /proc/mounts line of a mount at `name`: the kernel
\* writes a space of the path as \040.
proc_mounts_field(name) == [name |-> name, escaped |-> PathHasSpace(name)]

is_mountpoint_always(name) == TRUE

\* _is_mountpoint: is str(mountpoint) the second field of a line
is_mountpoint(name) ==
    \E m \in mounts : proc_mounts_field(m) = [name |-> name, escaped |-> FALSE]

UmSteps == {"um_data_dir", "um_remote_encrypted", "um_remote_decrypted",
            "um_local_encrypted"}

Target(step) ==
    CASE step = "um_data_dir"         -> "data_dir"
      [] step = "um_remote_encrypted" -> "remote_encrypted"
      [] step = "um_remote_decrypted" -> "remote_decrypted"
      [] step = "um_local_encrypted"  -> "local_encrypted"

unmount_all_order_unlink_last(step) ==
    CASE step = "um_data_dir"         -> "touch"
      [] step = "touch"               -> "um_remote_encrypted"
      [] step = "um_remote_encrypted" -> "sleep"
      [] step = "sleep"               -> "um_remote_decrypted"
      [] step = "um_remote_decrypted" -> "um_local_encrypted"
      [] step = "um_local_encrypted"  -> "unlink"
      [] step = "unlink"              -> "done"

\* The statements of _unmount_all, in program order.
unmount_all_order(step) ==
    CASE step = "um_data_dir"         -> "touch"
      [] step = "touch"               -> "um_remote_encrypted"
      [] step = "um_remote_encrypted" -> "sleep"
      [] step = "sleep"               -> "unlink"
      [] step = "unlink"              -> "um_remote_decrypted"
      [] step = "um_remote_decrypted" -> "um_local_encrypted"
      [] step = "um_local_encrypted"  -> "done"

\* unmount-all at the start of statement `step`
UAt(step) == [step |-> step, phase |-> IF step \in UmSteps THEN "check" ELSE "none"]

UEv(step, result) == [step |-> step, result |-> result]

\* `fusermount -u mountpoint` exiting 0: the mount leaves the table, and an
\* `rclone mount` serving it ends with status 0.
Fusermount(mountpoint) ==
    /\ mounts' = mounts \ {mountpoint}
    /\ rclone_mount' = IF mountpoint = "remote_encrypted" /\ rclone_mount = "mounted"
                       THEN "exit_zero" ELSE rclone_mount

UStart ==
    /\ u_pc = UAt("not_started")
    /\ u_pc' = UAt("um_data_dir")
    /\ UNCHANGED <<mounts, mount_base_has_space, remote_encrypted_dir, unmount_lock_file, u_trace,
                   m_pc, rclone_mount, configVars, uploadVars, dataVars>>

\* _unmount up to the return or the fusermount call
UUnmountCheck ==
    /\ u_pc.phase = "check"
    /\ IF is_mountpoint(Target(u_pc.step))
       THEN /\ u_pc' = [u_pc EXCEPT !.phase = "run"]
            /\ UNCHANGED u_trace
       ELSE /\ u_pc' = UAt(unmount_all_order(u_pc.step))
            /\ u_trace' = Append(u_trace, UEv(u_pc.step, "not_mounted"))
    /\ UNCHANGED <<mounts, mount_base_has_space, remote_encrypted_dir, unmount_lock_file,
                   m_pc, rclone_mount, configVars, uploadVars, dataVars>>

\* `subprocess.run(['fusermount', '-u', ...], check=True)`.  The tool may
\* fail (the mount is busy, or gone since the check).
UUnmountRun ==
    /\ u_pc.phase = "run"
    /\ \E ok \in BOOLEAN :
         IF ok /\ Target(u_pc.step) \in mounts
         THEN /\ Fusermount(Target(u_pc.step))
              /\ u_pc' = UAt(unmount_all_order(u_pc.step))
              /\ u_trace' = Append(u_trace, UEv(u_pc.step, "unmounted"))
         ELSE /\ u_pc' = UAt("crashed")
              /\ u_trace' = Append(u_trace, UEv(u_pc.step, "failed"))
              /\ UNCHANGED <<mounts, rclone_mount>>
    /\ UNCHANGED <<mount_base_has_space, remote_encrypted_dir, unmount_lock_file,
                   m_pc, configVars, uploadVars, dataVars>>

\* `unmount_lock_file.touch()`
UTouch ==
    /\ u_pc = UAt("touch")
    /\ unmount_lock_file' = TRUE
    /\ u_pc' = UAt(unmount_all_order("touch"))
    /\ u_trace' = Append(u_trace, UEv("touch", "ok"))
    /\ UNCHANGED <<mounts, mount_base_has_space, remote_encrypted_dir, m_pc, rclone_mount,
                   configVars, uploadVars, dataVars>>

\* `time.sleep(6)` returns
USleep ==
    /\ u_pc = UAt("sleep")
    /\ u_pc' = UAt(unmount_all_order("sleep"))
    /\ u_trace' = Append(u_trace, UEv("sleep", "ok"))
    /\ UNCHANGED <<mounts, mount_base_has_space, remote_encrypted_dir, unmount_lock_file, m_pc,
                   rclone_mount, configVars, uploadVars, dataVars>>

\* `try: unmount_lock_file.unlink()  except FileNotFoundError: pass`
UUnlink ==
    /\ u_pc = UAt("unlink")
    /\ unmount_lock_file' = FALSE
    /\ u_pc' = UAt(unmount_all_order("unlink"))
    /\ u_trace' = Append(u_trace, UEv("unlink", IF unmount_lock_file THEN "ok" ELSE "gone"))
    /\ UNCHANGED <<mounts, mount_base_has_space, remote_encrypted_dir, m_pc, rclone_mount,
                   configVars, uploadVars, dataVars>>

after_rclone_mount_unchecked(exit_zero) == "sleep"

\* `subprocess.run(args=mount_args, check=True)` in the loop
after_rclone_mount(exit_zero) == IF exit_zero THEN "sleep" ELSE "crashed"

\* `while not unmount_lock_file.exists():`
after_loop_test(lock_exists) == IF lock_exists THEN "unlink" ELSE "um_check"

\* mount_cloud_storage: _create_dirs, then the loop
MStart ==
    /\ m_pc = "not_started"
    /\ m_pc' = "loop_test"
    /\ remote_encrypted_dir' = TRUE
    /\ UNCHANGED <<mounts, mount_base_has_space, unmount_lock_file, u_pc,
                   u_trace, rclone_mount, configVars, uploadVars, dataVars>>

MLoopTest ==
    /\ m_pc = "loop_test"
    /\ m_pc' = after_loop_test(unmount_lock_file)
    /\ UNCHANGED <<mounts, mount_base_has_space, remote_encrypted_dir, unmount_lock_file, u_pc,
                   u_trace, rclone_mount, configVars, uploadVars, dataVars>>

MUnmountCheck ==
    /\ m_pc = "um_check"
    /\ m_pc' = IF is_mountpoint("remote_encrypted") THEN "um_run" ELSE "start_rclone"
    /\ UNCHANGED <<mounts, mount_base_has_space, remote_encrypted_dir, unmount_lock_file, u_pc,
                   u_trace, rclone_mount, configVars, uploadVars, dataVars>>

MUnmountRun ==
    /\ m_pc = "um_run"
    /\ \E ok \in BOOLEAN :
         IF ok /\ "remote_encrypted" \in mounts
         THEN /\ Fusermount("remote_encrypted")
              /\ m_pc' = "start_rclone"
         ELSE /\ m_pc' = "crashed"
              /\ UNCHANGED <<mounts, rclone_mount>>
    /\ UNCHANGED <<mount_base_has_space, remote_encrypted_dir, unmount_lock_file, u_pc,
                   u_trace, configVars, uploadVars, dataVars>>

\* `rclone mount` is started: it mounts remote_encrypted and stays in the
\* foreground, or it fails at once.
MStartRclone ==
    /\ m_pc = "start_rclone"
    /\ m_pc' = "wait"
    /\ \E mounted \in BOOLEAN :
         IF mounted
         THEN /\ mounts' = mounts \cup {"remote_encrypted"}
              /\ rclone_mount' = "mounted"
         ELSE /\ rclone_mount' = "exit_nonzero"
              /\ UNCHANGED mounts
    /\ UNCHANGED <<mount_base_has_space, remote_encrypted_dir, unmount_lock_file, u_pc,
                   u_trace, configVars, uploadVars, dataVars>>

\* subprocess.run returns (or raises) once `rclone mount` has ended
MWait ==
    /\ m_pc = "wait"
    /\ rclone_mount \in {"exit_zero", "exit_nonzero"}
    /\ m_pc' = after_rclone_mount(rclone_mount = "exit_zero")
    /\ rclone_mount' = "none"
    /\ UNCHANGED <<mounts, mount_base_has_space, remote_encrypted_dir, unmount_lock_file, u_pc,
                   u_trace, configVars, uploadVars, dataVars>>

\* `time.sleep(2)` returns
MSleep ==
    /\ m_pc = "sleep"
    /\ m_pc' = "loop_test"
    /\ UNCHANGED <<mounts, mount_base_has_space, remote_encrypted_dir, unmount_lock_file, u_pc,
                   u_trace, rclone_mount, configVars, uploadVars, dataVars>>

\* `unmount_lock_file.unlink()` after the loop: FileNotFoundError when
\* unmount-all has removed the file since the loop test.
MUnlink ==
    /\ m_pc = "unlink"
    /\ IF unmount_lock_file
       THEN /\ unmount_lock_file' = FALSE
            /\ m_pc' = "done"
       ELSE /\ m_pc' = "crashed"
            /\ UNCHANGED unmount_lock_file
    /\ UNCHANGED <<mounts, mount_base_has_space, remote_encrypted_dir, u_pc,
                   u_trace, rclone_mount, configVars, uploadVars, dataVars>>

\* `rclone mount` dies (killed, network failure): a non-zero status; the
\* dead mount may stay in the mount table.
RcloneCrash ==
    /\ rclone_mount = "mounted"
    /\ rclone_mount' = "exit_nonzero"
    /\ \E stale \in BOOLEAN :
         mounts' = IF stale THEN mounts ELSE mounts \ {"remote_encrypted"}
    /\ UNCHANGED <<mount_base_has_space, remote_encrypted_dir, unmount_lock_file, u_pc,
                   u_trace, m_pc, configVars, uploadVars, dataVars>>

\* Someone else unmounts remote_encrypted
ExternalUnmount ==
    /\ rclone_mount = "mounted"
    /\ "remote_encrypted" \in mounts
    /\ Fusermount("remote_encrypted")
    /\ UNCHANGED <<mount_base_has_space, remote_encrypted_dir, unmount_lock_file, u_pc,
                   u_trace, m_pc, configVars, uploadVars, dataVars>>

MountIdle ==
    /\ mounts = {}
    /\ mount_base_has_space = FALSE
    /\ remote_encrypted_dir = FALSE
    /\ unmount_lock_file = FALSE
    /\ u_pc = UAt("not_started")
    /\ u_trace = <<>>
    /\ m_pc = "not_started"
    /\ rclone_mount = "none"

\* Neither command has started; any of the mountpoints may be mounted
\* (left by an earlier `mount-data-dir`, or stale).
MountInit ==
    /\ mounts \in SUBSET Mountpoints
    /\ mount_base_has_space \in BOOLEAN
    /\ remote_encrypted_dir = ("remote_encrypted" \in mounts)
    /\ unmount_lock_file = FALSE
    /\ u_pc = UAt("not_started")
    /\ u_trace = <<>>
    /\ m_pc = "not_started"
    /\ rclone_mount = "none"

---------------------------------------------------------------------------
(* mount-data-dir: _wait_for_remote_mount, then _mount_data_dir            *)

max_attempts  == 5
sleep_seconds == 5

\* Values of path_on_cloud_drive: the root of the remote, a directory of it,
\* and a path written without the leading separator.
CloudPaths == {"/", "/sub", "sub"}

\* `Path(path_on_cloud_drive).relative_to('/')`: ValueError for a path that
\* does not start at the root; Path('/').relative_to('/') is Path('.').
relative_to_root(path) ==
    CASE path = "/"    -> [raised |-> FALSE, rel |-> "."]
      [] path = "/sub" -> [raised |-> FALSE, rel |-> "sub"]
      [] path = "sub"  -> [raised |-> TRUE,  rel |-> ""]

\* `rclone mount` serves remote_encrypted
LiveMount == "remote_encrypted" \in mounts /\ rclone_mount = "mounted"

\* `os.path.exists(remote_encrypted / rel)`.  Under a live mount the path is
\* looked up on the remote; a mount whose rclone has died answers no stat
\* (os.path.exists is False on the OSError); with nothing mounted the lookup
\* is in the directory _create_dirs made, which is empty.
remote_mount_exists(rel) ==
    IF "remote_encrypted" \in mounts
    THEN rclone_mount = "mounted" /\ (rel = "." \/ cloud_has_path)
    ELSE remote_encrypted_dir /\ rel = "."

mount_data_dir_order_union_first(step) ==
    CASE step = "wait"                   -> "mount_data_dir"
      [] step = "mount_data_dir"         -> "mount_local_encrypted"
      [] step = "mount_local_encrypted"  -> "mount_remote_decrypted"
      [] step = "mount_remote_decrypted" -> "done"

\* The statements of mount_data_dir, in program order: the wait, then the
\* three mount tools of _mount_data_dir.
mount_data_dir_order(step) ==
    CASE step = "wait"                   -> "mount_local_encrypted"
      [] step = "mount_local_encrypted"  -> "mount_remote_decrypted"
      [] step = "mount_remote_decrypted" -> "mount_data_dir"
      [] step = "mount_data_dir"         -> "done"

\* The directories each mount of _mount_data_dir presents: encfs --reverse
\* shows local_decrypted, encfs shows remote_encrypted//path_on_cloud_drive,
\* unionfs-fuse shows local_decrypted=RW:remote_decrypted=RO.
reads_from(layer) ==
    CASE layer = "local_encrypted"  -> {"local_decrypted"}
      [] layer = "remote_decrypted" -> {"remote_encrypted"}
      [] layer = "data_dir"         -> {"local_decrypted", "remote_decrypted"}
      [] OTHER                      -> {}

\* The mountpoints stacked on top of the mount at `name`
stacked_on(name) == { layer \in Mountpoints : name \in reads_from(layer) }

MountSteps == {"mount_local_encrypted", "mount_remote_decrypted", "mount_data_dir"}

\* The mountpoint and the tool of each mount statement: encfs --reverse,
\* encfs, unionfs-fuse.
Layer(step) ==
    CASE step = "mount_local_encrypted"  -> [at |-> "local_encrypted",  mode |-> "reverse"]
      [] step = "mount_remote_decrypted" -> [at |-> "remote_decrypted", mode |-> "forward"]
      [] step = "mount_data_dir"         -> [at |-> "data_dir",         mode |-> "union"]

DEv(step, ok) == [at |-> Layer(step).at, mode |-> Layer(step).mode, ok |-> ok]

after_poll_one_more(exists, n) ==
    IF exists THEN mount_data_dir_order("wait")
    ELSE IF n > max_attempts + 1 THEN "wait_failed"
    ELSE "sleep"

\* One test of `while not os.path.exists(remote_mount):` with n the value of
\* `attempts` after `attempts += 1`: the function returns, or fails through
\* ctx.fail, or goes on to sleep.
after_poll(exists, n) ==
    IF exists THEN mount_data_dir_order("wait")
    ELSE IF n > max_attempts THEN "wait_failed"
    ELSE "sleep"

\* _wait_for_remote_mount up to the loop
DStart ==
    /\ d_pc = "not_started"
    /\ d_pc' = IF relative_to_root(path_on_cloud_drive).raised
               THEN "crashed" ELSE "poll"
    /\ attempts' = 0
    /\ UNCHANGED <<path_on_cloud_drive, cloud_has_path, waited, d_trace,
                   configVars, uploadVars, mountVars>>

\* The loop test and, when it fails, the body up to the sleep
DPoll ==
    /\ d_pc = "poll"
    /\ LET exists == remote_mount_exists(relative_to_root(path_on_cloud_drive).rel)
       IN  /\ attempts' = IF exists THEN attempts ELSE attempts + 1
           /\ d_pc' = after_poll(exists, attempts')
    /\ UNCHANGED <<path_on_cloud_drive, cloud_has_path, waited, d_trace,
                   configVars, uploadVars, mountVars>>

\* `time.sleep(sleep_seconds)` returns
DSleep ==
    /\ d_pc = "sleep"
    /\ waited' = waited + sleep_seconds
    /\ d_pc' = "poll"
    /\ UNCHANGED <<path_on_cloud_drive, cloud_has_path, attempts, d_trace,
                   configVars, uploadVars, mountVars>>

\* One of the three `subprocess.run(..., check=True)` of _mount_data_dir
DMount ==
    /\ d_pc \in MountSteps
    /\ \E ok \in BOOLEAN :
         /\ mounts' = IF ok THEN mounts \cup {Layer(d_pc).at} ELSE mounts
         /\ d_trace' = Append(d_trace, DEv(d_pc, ok))
         /\ d_pc' = on_tool_exit(ok, mount_data_dir_order(d_pc))
    /\ UNCHANGED <<path_on_cloud_drive, cloud_has_path, attempts, waited,
                   mount_base_has_space, remote_encrypted_dir,
                   unmount_lock_file, u_pc, u_trace, m_pc, rclone_mount,
                   configVars, uploadVars>>

DataStep == DStart \/ DPoll \/ DSleep \/ DMount

DataIdle ==
    /\ path_on_cloud_drive = "/"
    /\ cloud_has_path = FALSE
    /\ d_pc = "not_started"
    /\ attempts = 0
    /\ waited = 0
    /\ d_trace = <<>>

\* mount-data-dir has not started, for every configured cloud path.
DataInit ==
    /\ path_on_cloud_drive \in CloudPaths
    /\ cloud_has_path \in BOOLEAN
    /\ d_pc = "not_started"
    /\ attempts = 0
    /\ waited = 0
    /\ d_trace = <<>>

\* cloud-drive-mount has not started either.  remote_encrypted may carry the
\* dead mount of an earlier rclone, and its directory may not exist yet.
DataMountInit ==
    /\ mounts \in {{}, {"remote_encrypted"}}
    /\ mount_base_has_space = FALSE
    /\ remote_encrypted_dir \in (IF mounts = {} THEN BOOLEAN ELSE {TRUE})
    /\ unmount_lock_file = FALSE
    /\ u_pc = UAt("not_started")
    /\ u_trace = <<>>
    /\ m_pc = "not_started"
    /\ rclone_mount = "none"

\* The processes that run reconciliation one after the other: a first and
\* a second run.
Runs == {p \in Procs : p <= 2}

\* Reconciliation is about to be run twice; no run has started, no
\* upload holds the lock.  The marker directory holds any markers, files and
\* directories, and any of their paths are on the remote.
SyncDeletesInit ==
    /\ pid_file = NoFile
    /\ proc_table = Runs
    /\ pc = [p \in Procs |-> IF p \in Runs THEN "sync_deletes" ELSE "not_started"]
    /\ running_pid = [p \in Procs |-> NoText]
    /\ trace = [p \in Procs |-> <<>>]
    /\ matched_files = [p \in Procs |-> {}]
    /\ failed_sync_deletes = [p \in Procs |-> FALSE]
    /\ search_dir \in BOOLEAN
    /\ markers \in (IF search_dir THEN SUBSET MarkerIds ELSE {{}})
    /\ remote \in SUBSET markers
    /\ local_entries = {}
    /\ now_timestamp = 0
    /\ seconds_to_keep_local = 0
    /\ filtered = {}
    /\ uploaded = {}

\* The runs follow one another: a run starts or goes on only while no other
\* run is inside the loop over the markers.
InARow(p) == p \in Runs /\ \A q \in Runs \ {p} : pc[q] # "sd_loop"

\* One upload is at its copy step: it holds the lock and reconciliation and
\* the encoding of the exclusion have returned.  The local cache holds any
\* files and directories, the retention window is any, and any of the files
\* are ones the copy leaves out (larger than --max-size, or under the
\* excluded directory).  No copy has transferred anything yet.
CopyPruneInit ==
    /\ pid_file = PidFile(1)
    /\ proc_table = {1}
    /\ pc = [p \in Procs |-> IF p = 1 THEN "copy" ELSE "not_started"]
    /\ running_pid = [p \in Procs |-> NoText]
    /\ trace = [p \in Procs |->
                  IF p = 1
                  THEN <<Ev("write_lock", 0, TRUE), Ev("sync_deletes", 0, TRUE),
                         Ev("sync_deletes_return", 0, TRUE),
                         Ev("encode_exclude", 0, TRUE)>>
                  ELSE <<>>]
    /\ matched_files = [p \in Procs |-> {}]
    /\ failed_sync_deletes = [p \in Procs |-> FALSE]
    /\ search_dir = FALSE
    /\ markers = {}
    /\ remote = {}
    /\ local_entries \in SUBSET AllEntries
    /\ now_timestamp \in MaxCtime..(MaxCtime + 1)
    /\ seconds_to_keep_local \in 0..MaxKeep
    /\ filtered \in SUBSET { e \in local_entries : e.file }
    /\ uploaded = {}

---------------------------------------------------------------------------
(* The specifications                                                      *)

ConfigInit ==
    /\ config_keys \in SUBSET KeyUniverse
    /\ load_result = Pending
    /\ environ = FALSE
    /\ command_body = FALSE

InitConfig == ConfigInit /\ UploadIdle /\ MountIdle /\ DataIdle
NextConfig == GetConfig \/ CommandBody
SpecConfig == InitConfig /\ [][NextConfig]_vars

InitUpload == ConfigIdle /\ UploadInit /\ MountIdle /\ DataIdle
NextUpload == (\E p \in Procs : UploadStep(p)) \/ OtherProcessExit
SpecUpload == InitUpload /\ [][NextUpload]_vars

InitMount == ConfigIdle /\ UploadIdle /\ MountInit /\ DataIdle
NextMount ==
    \/ UStart \/ UUnmountCheck \/ UUnmountRun \/ UTouch \/ USleep \/ UUnlink
    \/ MStart \/ MLoopTest \/ MUnmountCheck \/ MUnmountRun \/ MStartRclone
    \/ MWait \/ MSleep \/ MUnlink
    \/ RcloneCrash \/ ExternalUnmount
SpecMount == InitMount /\ [][NextMount]_vars

InitSyncDeletes == ConfigIdle /\ SyncDeletesInit /\ MountIdle /\ DataIdle
NextSyncDeletes ==
    \E p \in Procs :
        /\ InARow(p)
        /\ (SyncDeletesEnter(p) \/ SyncDeletesMarker(p) \/ SyncDeletesFinish(p))
SpecSyncDeletes == InitSyncDeletes /\ [][NextSyncDeletes]_vars

InitCopyPrune == ConfigIdle /\ CopyPruneInit /\ MountIdle /\ DataIdle
NextCopyPrune == \E p \in Procs : Copy(p) \/ LocalCleanup(p) \/ UnlinkLock(p)
SpecCopyPrune == InitCopyPrune /\ [][NextCopyPrune]_vars

InitDataDir == ConfigIdle /\ UploadIdle /\ DataMountInit /\ DataInit
NextDataDir ==
    \/ DStart \/ DPoll \/ DSleep \/ DMount
    \/ MStart \/ MLoopTest \/ MUnmountCheck \/ MUnmountRun \/ MStartRclone
    \/ MWait \/ MSleep
    \/ RcloneCrash \/ ExternalUnmount
SpecDataDir == InitDataDir /\ [][NextDataDir]_vars

\* mount-data-dir is a running process: it keeps taking its next step.
FairSpecDataDir == SpecDataDir /\ WF_vars(DataStep)

---------------------------------------------------------------------------
(* Claims about upload (checked under SpecUpload)                          *)

\* Past the lock check: running reconciliation, the copy or the pruning,
\* up to the release of the lock.
InUpload(p) == pc[p] \in {"sync_deletes", "sd_loop", "encode_exclude", "copy",
                          "cleanup", "unlink_lock"}

\* C1: of the upload commands that share upload.pid, at most one at a time
\* is past the lock check.
C1_MutualExclusion ==
    Cardinality({p \in Procs : InUpload(p)}) <= 1

\* p takes a step from label l
StepsFrom(p, l) == pc[p] = l /\ pc'[p] # l

UploadStateUnchanged ==
    UNCHANGED <<search_dir, markers, remote, local_entries>>

\* C2: the lock check.  When upload.pid exists and names a live process,
\* upload fails: the lock file, the markers, the remote and the local cache
\* are left as they were, and nothing of the run has happened.  When there is
\* no lock file, an empty one, or one naming a dead process, upload goes on to
\* write the lock, and that write leaves exactly its own pid in the file.
C2_LockCheck ==
    [][\A p \in Procs :
        /\ (StepsFrom(p, "proc_exists") /\ running_pid[p] \in proc_table)
               => /\ pc'[p] = "failed"
                  /\ pid_file' = pid_file
                  /\ trace'[p] = <<>>
                  /\ UploadStateUnchanged
        /\ (StepsFrom(p, "proc_exists") /\ running_pid[p] # NoText
                                        /\ running_pid[p] \notin proc_table)
               => pc'[p] = "write_lock"
        /\ (StepsFrom(p, "lock_exists") /\ ~pid_file.exists)
               => pc'[p] = "write_lock"
        /\ (StepsFrom(p, "read_text") /\ pid_file.exists /\ pid_file.text = NoText)
               => pc'[p] = "write_lock"
        /\ pc'[p] = "failed" => trace'[p] = <<>>
        /\ StepsFrom(p, "write_lock")
               => /\ pid_file' = PidFile(p)
                  /\ pc'[p] \notin Terminal
      ]_vars

\* An upload has refused to start on a live lock, and another has started on
\* an empty or stale lock file and written its pid.
C2_Witness ==
    \E p, q \in Procs :
        /\ pc[p] = "failed"
        /\ pid_file.exists /\ pid_file.text \in proc_table
        /\ pc[q] = "sync_deletes" /\ pid_file = PidFile(q)

\* op occurs in p's trace before position i, successfully
DoneBefore(p, op, i) == \E j \in 1..(i - 1) : trace[p][j].op = op /\ trace[p][j].ok

SyncOps == {"sync_deletes", "encode", "encode_empty", "ls", "delete", "purge",
            "remove_marker", "rmtree_search_dir", "sync_deletes_return"}

C3_Order(p) ==
    /\ \A i \in 1..Len(trace[p]) :
         /\ i = 1 <=> trace[p][i].op = "write_lock"
         /\ trace[p][i].op \in SyncOps \ {"sync_deletes"}
                => DoneBefore(p, "sync_deletes", i)
         /\ trace[p][i].op = "copy"
                => /\ DoneBefore(p, "sync_deletes_return", i)
                   /\ \A j \in i..Len(trace[p]) : trace[p][j].op \notin SyncOps
         /\ trace[p][i].op = "cleanup" => DoneBefore(p, "copy", i)
         /\ trace[p][i].op = "unlink_lock" => DoneBefore(p, "cleanup", i)
    /\ pc[p] = "done" => /\ Len(trace[p]) > 0
                         /\ trace[p][Len(trace[p])] = Ev("unlink_lock", 0, TRUE)

\* C3: within one upload run the lock is written first, reconciliation has
\* returned before the copy starts, pruning starts only after a successful
\* copy, the lock file is deleted only after pruning, and the step that
\* completes a run leaves no lock file.
C3_UploadOrder ==
    /\ [](\A p \in Procs : C3_Order(p))
    /\ [][\A p \in Procs : (pc'[p] = "done" /\ pc[p] # "done") => ~pid_file'.exists]_vars

\* A run has completed normally after reconciling a marker.
C3_Witness ==
    \E p \in Procs :
        /\ pc[p] = "done"
        /\ ~pid_file.exists
        /\ \E i \in 1..Len(trace[p]) : trace[p][i].op = "remove_marker"

\* The tool calls of upload made with check=True
CheckedOps == {"encode", "encode_exclude", "delete", "purge", "copy"}

\* C4: a wrapped tool that exits non-zero where the exit status is checked
\* (encoding, remote delete / purge, the copy) is the last thing the run does:
\* the upload aborts, and a failed copy is never followed by pruning.
C4_FatalToolFailure ==
    \A p \in Procs : \A i \in 1..Len(trace[p]) :
        (trace[p][i].op \in CheckedOps /\ ~trace[p][i].ok)
            => /\ i = Len(trace[p])
               /\ pc[p] = "crashed"
               /\ p \notin proc_table

\* An upload has aborted on a failed copy, another on a failed remote
\* delete or purge.
C4_Witness ==
    \E p, q \in Procs :
        /\ pc[p] = "crashed" /\ Len(trace[p]) > 0
        /\ trace[p][Len(trace[p])] = Ev("copy", 0, FALSE)
        /\ pc[q] = "crashed" /\ Len(trace[q]) > 0
        /\ trace[q][Len(trace[q])].op \in {"delete", "purge"}
        /\ ~trace[q][Len(trace[q])].ok

---------------------------------------------------------------------------
(* Claims about configuration loading (checked under SpecConfig)           *)

Loaded == load_result.status # "pending"

\* C5: a configuration mapping that lacks a required key fails to load with
\* a parameter error whose message names every missing key.
C5_MissingKeysNamed ==
    (Loaded /\ required_keys \ config_keys # {})
        => /\ load_result.status = "BadParameter"
           /\ \A k \in required_keys \ config_keys : Names(load_result, k)

\* Loading has failed on a document that lacks several required keys and
\* carries unexpected ones as well.
C5_Witness ==
    /\ Loaded
    /\ Cardinality(required_keys \ config_keys) >= 2
    /\ config_keys \ allowed_keys # {}
    /\ load_result.status = "BadParameter"

\* C6: a configuration mapping with a key outside the allowed set fails to
\* load with a parameter error whose message names every extra key, also
\* when required keys are missing too.
C6_ExtraKeysNamed ==
    (Loaded /\ config_keys \ allowed_keys # {})
        => /\ load_result.status = "BadParameter"
           /\ \A k \in config_keys \ allowed_keys : Names(load_result, k)

---------------------------------------------------------------------------
(* Claims about the mount lifecycle (checked under SpecMount)              *)

UCalls(result) == \E i \in 1..Len(u_trace) : u_trace[i].result = result

\* C7: _unmount of a path that is not in the mount table returns normally
\* without calling fusermount and leaves the mount table as it was; fusermount
\* is called only for a path that _unmount found in the mount table.  Both
\* callers of _unmount are covered: _unmount_all and the remount loop.
C7_UnmountNoop ==
    [][/\ (u_pc.phase = "check" /\ u_pc' # u_pc /\ Target(u_pc.step) \notin mounts)
            => /\ mounts' = mounts
               /\ rclone_mount' = rclone_mount
               /\ u_pc'.phase # "run" /\ u_pc'.step \notin {"crashed", u_pc.step}
               /\ u_trace' = Append(u_trace, UEv(u_pc.step, "not_mounted"))
       /\ (u_pc'.phase = "run" /\ u_pc' # u_pc)
            => /\ u_pc.phase = "check" /\ u_pc'.step = u_pc.step
               /\ Target(u_pc.step) \in mounts
       /\ (m_pc = "um_check" /\ m_pc' # m_pc /\ "remote_encrypted" \notin mounts)
            => /\ mounts' = mounts
               /\ rclone_mount' = rclone_mount
               /\ m_pc' = "start_rclone"
       /\ (m_pc' = "um_run" /\ m_pc # "um_run")
            => m_pc = "um_check" /\ "remote_encrypted" \in mounts
      ]_vars

\* unmount-all has skipped one mountpoint that was not mounted and has
\* unmounted another with fusermount.
C7_Witness ==
    /\ UCalls("not_mounted")
    /\ UCalls("unmounted")
    /\ ~mount_base_has_space

ListedSteps == <<"um_data_dir", "touch", "sleep", "unlink",
                 "um_remote_decrypted", "um_local_encrypted">>

IsListed(e) == \E i \in 1..Len(ListedSteps) : ListedSteps[i] = e.step

\* The listed steps that unmount-all has performed are the first ones of
\* the list, in its order.
C8_ListedOrder ==
    LET done == SelectSeq(u_trace, IsListed)
    IN  /\ Len(done) <= Len(ListedSteps)
        /\ \A i \in 1..Len(done) : done[i].step = ListedSteps[i]

UDid(step) == \E i \in 1..Len(u_trace) : u_trace[i].step = step

\* C8 as stated: unmount-all unmounts the union view, creates the sentinel,
\* waits, removes the sentinel, unmounts remote-decrypted and then
\* local-encrypted, in this order; the sentinel exists for the whole grace
\* period; the last two unmounts happen only after the sentinel is removed.
C8_Original ==
    /\ C8_ListedOrder
    /\ u_pc.step = "sleep" => unmount_lock_file
    /\ u_pc.step \in {"um_remote_decrypted", "um_local_encrypted"}
          => UDid("unlink") /\ ~unmount_lock_file

\* C8, amended: the same order of steps; the sentinel has been created when
\* the grace period starts, and during the grace period only a
\* cloud-drive-mount loop that has seen it removes it; unmount-all's removal
\* step leaves no sentinel, whether or not the file was still there, and the
\* last two unmounts happen only after that step.
C8_Amended ==
    /\ [](/\ C8_ListedOrder
          /\ u_pc.step = "sleep" => UDid("touch")
          /\ u_pc.step \in {"um_remote_decrypted", "um_local_encrypted"}
                => UDid("unlink"))
    /\ [][/\ (u_pc.step = "sleep" /\ unmount_lock_file /\ ~unmount_lock_file')
               => m_pc = "unlink" /\ m_pc' = "done"
          /\ (u_pc.step = "unlink" /\ u_pc' # u_pc)
               => ~unmount_lock_file' /\ u_pc'.step = "um_remote_decrypted"
         ]_vars

\* unmount-all has run to its end, and found at its removal step that the
\* loop had already removed the sentinel.
C8_Witness ==
    /\ u_pc.step = "done"
    /\ Len(u_trace) = 7
    /\ UCalls("gone")
    /\ m_pc = "done"

\* C9: once unmount-all has created the sentinel, the remount loop does not
\* start `rclone mount` again (it sees the sentinel and leaves the loop), and
\* when both commands have ended normally the sentinel does not exist and
\* remote-encrypted is not mounted.
C9_Handshake ==
    /\ [][(m_pc = "start_rclone" /\ m_pc' = "wait") => ~unmount_lock_file]_vars
    /\ []((u_pc.step = "done" /\ m_pc = "done")
            => ~unmount_lock_file /\ "remote_encrypted" \notin mounts)

\* C10: while the sentinel does not exist, every exit of `rclone mount`,
\* whatever its status, is followed by the sleep, the loop test and a new
\* iteration that starts with the unmount of a stale remote mount.
C10_Remount ==
    [][/\ (m_pc = "wait" /\ m_pc' # "wait" /\ ~unmount_lock_file) => m_pc' = "sleep"
       /\ (m_pc = "sleep" /\ m_pc' # "sleep") => m_pc' = "loop_test"
       /\ (m_pc = "loop_test" /\ m_pc' # "loop_test" /\ ~unmount_lock_file)
            => m_pc' = "um_check"
       /\ (m_pc = "um_check" /\ m_pc' # "um_check")
            => m_pc' \in {"um_run", "start_rclone"}
      ]_vars

---------------------------------------------------------------------------
(* Claims about mount-data-dir (checked under SpecDataDir, the liveness    *)
(* claim under FairSpecDataDir)                                            *)

InWait == d_pc \in {"poll", "sleep"}

\* The wait has returned: mount-data-dir is at or past its first mount tool
WaitReturned == d_pc \in MountSteps \cup {"done"} \/ Len(d_trace) > 0

\* os.path.exists of the path the wait polls for
PollFinds == remote_mount_exists(relative_to_root(path_on_cloud_drive).rel)

\* C11: _wait_for_remote_mount always terminates.  A poll that finds the
\* remote mount path returns at once; a poll that does not is followed by a
\* wait of 5 seconds or, after 5 such waits, by the failure; the failure comes
\* only after 5 waits (25 seconds), and the loop never goes on after them.
C11_WaitTerminates ==
    /\ [](/\ waited <= 5 * 5
          /\ d_pc = "wait_failed" => waited = 5 * 5 /\ d_trace = <<>>
          /\ d_pc = "poll" => waited = 5 * attempts)
    /\ [][/\ (d_pc = "poll" /\ d_pc' # "poll" /\ PollFinds)
               => d_pc' = "mount_local_encrypted" /\ waited' = waited
          /\ (d_pc = "poll" /\ d_pc' # "poll" /\ ~PollFinds)
               => IF waited < 5 * 5 THEN d_pc' = "sleep" ELSE d_pc' = "wait_failed"
          /\ (d_pc = "sleep" /\ d_pc' # "sleep")
               => d_pc' = "poll" /\ waited' = waited + 5
          /\ (InWait /\ ~InWait') => d_pc = "poll"
         ]_vars
    /\ (InWait ~> ~InWait)

\* The wait has given up after its five waits.
C11_Witness ==
    /\ d_pc = "wait_failed"
    /\ waited = 25
    /\ path_on_cloud_drive = "/sub"

LayerOrder == <<"mount_local_encrypted", "mount_remote_decrypted", "mount_data_dir">>

\* C18: mount-data-dir runs its mount tools in the order local-encrypted
\* (encfs in reverse mode), remote-decrypted (encfs in forward mode), union
\* view, and a tool that fails is the last thing the command does: every tool
\* before the last one run has succeeded, so remote-decrypted is attempted
\* only after local-encrypted succeeded and the union view only after both.
C18_MountOrder ==
    /\ Len(d_trace) <= Len(LayerOrder)
    /\ \A i \in 1..Len(d_trace) :
         /\ d_trace[i].at = Layer(LayerOrder[i]).at
         /\ d_trace[i].mode = <<"reverse", "forward", "union">>[i]
         /\ i < Len(d_trace) => d_trace[i].ok
         /\ d_trace[i].ok => d_trace[i].at \in mounts
         /\ ~d_trace[i].ok => d_pc = "crashed"
    /\ d_pc = "done" => Len(d_trace) = 3
    /\ d_pc \in MountSteps => d_pc = LayerOrder[Len(d_trace) + 1]

\* All three layers have been mounted.
C18_Witness ==
    /\ d_pc = "done"
    /\ Len(d_trace) = 3
    /\ \A i \in 1..3 : d_trace[i].ok

\* C19: the layers are mounted only over mounted cloud storage.  For every
\* configured cloud path, "/" included: when the wait returns,
\* remote-encrypted is a live mountpoint, and when the wait fails no mount
\* tool has been run.
C19_WaitMeansMounted ==
    /\ [][(d_pc = "poll" /\ d_pc' \in MountSteps) => LiveMount]_vars
    /\ [](d_pc \in {"wait_failed", "crashed"} /\ ~WaitReturned => d_trace = <<>>)

---------------------------------------------------------------------------
(* Claims about delete reconciliation (checked under SpecSyncDeletes)      *)

\* What the step adds to the trace of p
Appended(p) == SubSeq(trace'[p], Len(trace[p]) + 1, Len(trace'[p]))

\* Does the sequence of events hold event e
Holds(seq, e) == \E i \in 1..Len(seq) : seq[i] = e

\* Does it hold an event of one of the operations ops for marker m
HoldsOp(seq, ops, m) ==
    \E i \in 1..Len(seq) : seq[i].op \in ops /\ seq[i].marker = m

\* Has the run of p had an empty encoding, for marker m
EncodedEmpty(p, m) == Holds(trace[p], Ev("encode_empty", m, TRUE))

\* The run of p has returned from _sync_deletes
Returned(p) ==
    /\ Len(trace[p]) > 0
    /\ trace[p][Len(trace[p])] = Ev("sync_deletes_return", 0, TRUE)

Returns(p) == ~Returned(p) /\ Returned(p)'

\* C12: when the encoding of a marker comes back empty, the run issues no
\* remote existence check and no remote delete for that marker and does not
\* remove it, and the run does not delete the marker directory when it ends,
\* whatever happened to the other markers.
C12_EmptyEncoding ==
    /\ [](\A p \in Procs, m \in MarkerIds :
            EncodedEmpty(p, m)
                => /\ ~HoldsOp(trace[p], {"ls", "delete", "purge", "remove_marker"}, m)
                   /\ ~HoldsOp(trace[p], {"rmtree_search_dir"}, 0))
    /\ [][\A p \in Procs, m \in MarkerIds :
            /\ Holds(Appended(p), Ev("encode_empty", m, TRUE))
                 => /\ Appended(p) = <<Ev("encode_empty", m, TRUE)>>
                    /\ m \in markers
                    /\ UNCHANGED <<markers, remote, search_dir>>
            /\ (EncodedEmpty(p, m) /\ Returns(p))
                 => /\ search_dir' /\ m \in markers'
                    /\ UNCHANGED <<markers, remote, search_dir>>
         ]_vars

\* A run has returned after an empty encoding of one marker and the
\* successful processing of another: the directory and the marker are there.
C12_Witness ==
    \E p \in Procs, m, n \in MarkerIds :
        /\ Returned(p)
        /\ EncodedEmpty(p, m)
        /\ Holds(trace[p], Ev("remove_marker", n, TRUE))
        /\ search_dir /\ m \in markers /\ n \notin markers

\* C13: when the remote existence check of a marker's encoded path reports
\* "not found", the run issues no remote delete or purge for the marker and
\* removes the local marker all the same.
C13_RemoteAbsent ==
    /\ [](\A p \in Procs, m \in MarkerIds :
            Holds(trace[p], Ev("ls", m, FALSE))
                => /\ ~HoldsOp(trace[p], {"delete", "purge"}, m)
                   /\ Holds(trace[p], Ev("remove_marker", m, TRUE)))
    /\ [][\A p \in Procs, m \in MarkerIds :
            Holds(Appended(p), Ev("ls", m, FALSE))
                => /\ Appended(p) = <<Ev("encode", m, TRUE), Ev("ls", m, FALSE),
                                      Ev("remove_marker", m, TRUE)>>
                   /\ m \in markers /\ markers' = markers \ {m}
                   /\ UNCHANGED <<remote, search_dir>>
                   /\ pc'[p] = "sd_loop"
         ]_vars

\* A run has found a marker's path missing from the remote and has removed
\* the marker.
C13_Witness ==
    \E p \in Procs, m \in MarkerIds :
        /\ Holds(trace[p], Ev("ls", m, FALSE))
        /\ m \notin markers /\ m \notin remote
        /\ Returned(p) /\ ~search_dir

\* The second of two runs in a row does nothing: it logs that there is no
\* marker directory and returns.
NoOp(p) ==
    /\ Appended(p) = <<Ev("sync_deletes", 0, TRUE), Ev("sync_deletes_return", 0, TRUE)>>
    /\ UNCHANGED <<search_dir, markers, remote, local_entries, pid_file>>

Enters(p) == pc[p] = "sync_deletes" /\ pc'[p] # "sync_deletes"

\* C14 as stated: of two runs in a row the second finds no marker directory,
\* the first having removed it, and is a no-op, as is every run that starts
\* without the marker directory.
C14_Original ==
    [][\A p \in Procs :
        Enters(p)
            => /\ (\E q \in Procs \ {p} : Returned(q)) => ~search_dir
               /\ ~search_dir => NoOp(p)
      ]_vars

\* C14, amended: a run that starts without the marker directory is a no-op
\* (no remote operation, no local change).  A run that returns without an
\* empty encoding leaves no marker directory, so the run that follows it is
\* such a no-op; a run that had an empty encoding returns with the directory
\* in place.
C14_Amended ==
    [][\A p \in Procs :
        /\ (Enters(p) /\ ~search_dir) => NoOp(p)
        /\ (Enters(p) /\ \E q \in Procs \ {p} :
                             Returned(q) /\ \A m \in MarkerIds : ~EncodedEmpty(q, m))
               => ~search_dir /\ NoOp(p)
        /\ Returns(p)
               => (search_dir' <=> \E m \in MarkerIds : EncodedEmpty(p, m))
      ]_vars

\* Two runs in a row: the first has processed a marker and removed the
\* marker directory, the second has found nothing to do.
C14_Witness ==
    \E p, q \in Procs :
        /\ Holds(trace[p], Ev("rmtree_search_dir", 0, TRUE))
        /\ HoldsOp(trace[p], {"remove_marker"}, 1)
        /\ trace[q] = <<Ev("sync_deletes", 0, TRUE), Ev("sync_deletes_return", 0, TRUE)>>
        /\ ~search_dir

\* The remote deletion that goes with the kind of marker m
DeletionOf(m) == IF marker_is_file(m) THEN "delete" ELSE "purge"

---------------------------------------------------------------------------
(* Claim about configuration errors (checked under SpecConfig)             *)

\* C15: when loading the configuration fails on a missing or an extra key,
\* the body of the command is not run and nothing has been changed: the
\* environment variable is not set, and there is no lock file, no sentinel,
\* no mount and no remote change.
C15_ConfigErrorNoEffect ==
    (Loaded /\ (required_keys \ config_keys # {} \/ config_keys \ allowed_keys # {}))
        => /\ load_result.status \notin {"pending", "Config"}
           /\ ~command_body
           /\ ~environ
           /\ pid_file = NoFile /\ ~unmount_lock_file
           /\ mounts = {} /\ remote = {} /\ markers = {}

\* Loading has failed with a parameter error on an extra key.
C15_Witness ==
    /\ load_result.status = "BadParameter"
    /\ load_result.about = "extra"
    /\ ~command_body /\ ~environ

---------------------------------------------------------------------------
(* Claims about the copy and the pruning (checked under SpecCopyPrune)     *)

Prunes(p) == pc[p] = "cleanup" /\ pc'[p] # "cleanup"

\* C16: pruning removes exactly the regular files under local_decrypted
\* whose ctime is older than now minus the retention window: each of them is
\* deleted, every file at least as new as the cutoff stays, and every
\* directory stays whatever its age.
C16_PruneExactlyOldFiles ==
    [][\A p \in Procs :
        Prunes(p)
            => /\ local_entries' \subseteq local_entries
               /\ \A e \in local_entries :
                    /\ (e.file /\ e.ctime < now_timestamp - seconds_to_keep_local)
                          => e \notin local_entries'
                    /\ (e.file /\ e.ctime >= now_timestamp - seconds_to_keep_local)
                          => e \in local_entries'
                    /\ ~e.file => e \in local_entries'
      ]_vars

\* Pruning has run with the cutoff at 1 on a cache with a file and a
\* directory of every age: only the file of age 0 is gone.
C16_Witness ==
    /\ \E p \in Procs : Holds(trace[p], Ev("cleanup", 0, TRUE))
    /\ now_timestamp - seconds_to_keep_local = 1
    /\ local_entries = AllEntries \ {[file |-> TRUE, ctime |-> 0]}

\* C20: when local_encrypted has no children, upload does not run the copy
\* (it logs that there is nothing to upload) and goes on to the pruning; the
\* copy is run only when the directory has a child.
C20_NoCopyOfEmptyDir ==
    [][\A p \in Procs :
        (pc[p] = "copy" /\ pc'[p] # "copy")
            => IF children(local_entries) = {}
               THEN /\ Appended(p) = <<Ev("nothing_to_upload", 0, TRUE)>>
                    /\ pc'[p] = "cleanup"
               ELSE /\ Len(Appended(p)) = 1
                    /\ Appended(p)[1].op = "copy"
      ]_vars

---------------------------------------------------------------------------
(* Further claims about reconciliation, pruning, the lock and the sentinel *)

\* C21 (checked under SpecSyncDeletes): whenever reconciliation removes a
\* local marker, the path the marker denotes is not on the remote afterwards,
\* whatever the remote existence check answered.
C21_RemovedMeansAbsent ==
    [][\A m \in MarkerIds :
        (m \in markers /\ m \notin markers') => m \notin remote'
      ]_vars

\* C22 (checked under SpecCopyPrune): pruning deletes a local file only if a
\* copy that exited 0 has transferred it, for every retention window and
\* also for the files the filters of the copy leave out.
C22_PrunedOnlyIfUploaded ==
    [][\A e \in local_entries :
        (e.file /\ e \notin local_entries') => e \in uploaded
      ]_vars

\* C23 (checked under SpecUpload): when an upload deletes the lock file at
\* its end, the file exists and holds the pid of that upload, so that no
\* upload deletes the lock of another one that is running and the deletion
\* never fails on a missing file.
C23_LockReleaseOwnership ==
    [][\A p \in Procs :
        (pc[p] = "unlink_lock" /\ pc'[p] # "unlink_lock")
            => /\ pid_file = PidFile(p)
               /\ pc'[p] = "done"
      ]_vars

\* C24 (checked under SpecMount): the sentinel exists only while unmount-all
\* is running: before it starts, after it has ended and after it has
\* aborted on a failed unmount tool there is no sentinel.
C24_SentinelOnlyDuringUnmount ==
    u_pc.step \in {"not_started", "done", "crashed"} => ~unmount_lock_file

\* C25 (checked under SpecMount): unmount-all never unmounts a mount while a
\* mount stacked on it is still mounted: the union view goes before
\* remote-decrypted, remote-decrypted before remote-encrypted.
C25_TeardownLayering ==
    [][(/\ u_pc.phase = "run" /\ u_pc' # u_pc
        /\ Target(u_pc.step) \in mounts
        /\ Target(u_pc.step) \notin mounts')
            => stacked_on(Target(u_pc.step)) \cap mounts = {}
      ]_vars

===========================================================================
